---- MODULE Spec2Model ----
(***************************************************************************)
(* cargo-workspace-unused-pub: main_impl of src/main.rs as a state machine. *)
(* One run of the tool: workspace check, SCIP loading, declaration         *)
(* collection, Pass 1 (occurrences), Pass 2 (mains, tests, trait methods), *)
(* Pass 3 (grep), location of the definitions, grouping, display, exit.    *)
(*                                                                         *)
(* Strings are sequences of one-character strings, so that str::contains   *)
(* and the ordering of String are computed and not assumed.                *)
(***************************************************************************)
EXTENDS Integers, Sequences, FiniteSets, TLC

VARIABLES
    pc,                        \* the stage main_impl is about to run
    ws,                        \* the workspace directory (args.workspace)
    index,                     \* the parsed SCIP index
    declarations,              \* HashMap symbol id -> SymbolInformation
    traits,                    \* HashSet of trait display names
    counts,                    \* HashMap symbol id -> lines matching its name
    n_found,                   \* declarations.len() after Pass 3
    declarations_occurrences,  \* Vec of (document, occurrence) located
    groups,                    \* the sorted Vec of (path, occurrences)
    next_group,                \* position of the display loop in groups
    output,                    \* what println! wrote to the console
    warnings,                  \* what warn! logged
    status,                    \* the exit status of the process, once ended
    cause                      \* why the run ended

vars == <<pc, ws, index, declarations, traits, counts, n_found,
          declarations_occurrences, groups, next_group, output, warnings,
          status, cause>>

----------------------------------------------------------------------------
(* Bounds of the explored inputs.                                          *)

\* symbols declared in the whole index
MaxSyms == 2
\* largest starting line of an occurrence (0-based)
MaxLine == 1

----------------------------------------------------------------------------
(* Program constants.                                                      *)

\* SymbolRole::Definition, the bit tested at lines 90 and 153
Definition == 1
\* std::process::exit(2) in main
ErrorExit == 2
\* exit status of a Rust process that panicked (unwrap at line 133, index at 181)
PanicExit == 101
\* main returns normally
SuccessExit == 0

TEST == <<"t", "e", "s", "t">>
MAIN == <<"m", "a", "i", "n">>
\* default_value = "rs,html"
Extensions == {<<"r", "s">>, <<"h", "t", "m", "l">>}

----------------------------------------------------------------------------
(* Strings.                                                                *)

\* str::contains(needle): needle occurs as a contiguous substring
Contains(hay, needle) ==
    \E i \in 0..(Len(hay) - Len(needle)) :
        SubSeq(hay, i + 1, i + Len(needle)) = needle

\* the byte of a character (ASCII), for the characters the paths use
CharCode(c) ==
    CASE c = "." -> 46
      [] c = "/" -> 47
      [] c = "a" -> 97
      [] c = "b" -> 98
      [] c = "c" -> 99
      [] OTHER   -> 122

\* a variant that compares the lengths first
RECURSIVE StrLessShortFirst(_, _)
StrLessShortFirst(a, b) ==
    IF Len(a) # Len(b) THEN Len(a) < Len(b)
    ELSE IF a = <<>> THEN FALSE
    ELSE IF CharCode(Head(a)) # CharCode(Head(b))
         THEN CharCode(Head(a)) < CharCode(Head(b))
    ELSE StrLessShortFirst(Tail(a), Tail(b))

\* Ord for String: lexicographic on bytes, a proper prefix is smaller
RECURSIVE StrLess(_, _)
StrLess(a, b) ==
    IF b = <<>> THEN FALSE
    ELSE IF a = <<>> THEN TRUE
    ELSE IF CharCode(Head(a)) # CharCode(Head(b))
         THEN CharCode(Head(a)) < CharCode(Head(b))
    ELSE StrLess(Tail(a), Tail(b))

\* i32 bitwise and, on non-negative values
RECURSIVE BitAnd(_, _)
BitAnd(x, y) ==
    IF x = 0 \/ y = 0 THEN 0
    ELSE (x % 2) * (y % 2) + 2 * BitAnd(x \div 2, y \div 2)

\* all the orders in which a hash map or hash set may yield the elements of S
Orders(S) ==
    {f \in [1..Cardinality(S) -> S] : \A i, j \in DOMAIN f : f[i] = f[j] => i = j}

----------------------------------------------------------------------------
(* The SCIP index: documents, symbols, occurrences.                        *)

NoDoc == [present |-> FALSE, relative_path |-> <<>>]
SomeDoc(p) == [present |-> TRUE, relative_path |-> p]

SymbolInformation(id, name, kind, sigdoc) ==
    [symbol |-> id, display_name |-> name, kind |-> kind,
     signature_documentation |-> sigdoc]

\* relative paths of the documents, in the order of index.documents:
\* the second sorts before the first
DocPaths == << <<"b">>, <<"a", "b">> >>

\* The symbols an index may declare, each with the document declaring it.
\* Symbol ids are unique in a SCIP index.
Pool == <<
    [doc |-> 2, info |-> SymbolInformation(<<"a", "/", "f", "o">>, <<"f", "o">>,
                                           "Function", NoDoc)],
    [doc |-> 1, info |-> SymbolInformation(<<"H", "#", "b", "a">>, <<"b", "a">>,
                                           "Method", SomeDoc(<<"b">>))],
    [doc |-> 1, info |-> SymbolInformation(<<"c", "/", "m", "a", "i", "n">>, MAIN,
                                           "Function", NoDoc)],
    [doc |-> 2, info |-> SymbolInformation(<<"t", "e", "s", "t", "/", "f", "o">>,
                                           <<"f", "o">>, "Function", NoDoc)],
    [doc |-> 1, info |-> SymbolInformation(<<"c", "/", "h", "f">>, <<"h", "f">>,
                                           "Method",
                                           SomeDoc(<<"t", "e", "s", "t", "s">>))],
    [doc |-> 2, info |-> SymbolInformation(<<"c", "/", "H">>, <<"H">>,
                                           "Trait", NoDoc)],
    [doc |-> 1, info |-> SymbolInformation(<<"a", "/", "X">>, <<"X">>,
                                           "Unrecognized", NoDoc)]
>>

IsCallable(info) == info.kind \in {"Function", "Method"}

Occurrence(id, roles, line) ==
    [symbol |-> id, symbol_roles |-> roles, range |-> <<line>>]

\* Occurrences of the symbols ids: definitions (role 1, or 3 with another bit
\* set) at any line, and uses (role 0, or 2 with another bit set); the range of
\* a use is never read by the program.
Occurrences(ids) ==
    {Occurrence(id, r, l) : id \in ids, r \in {1, 3}, l \in 0..MaxLine}
    \cup {Occurrence(id, r, 0) : id \in ids, r \in {0, 2}}

SeqsOfLen(S, n) == [1..n -> S]

ChosenSymbols(chosen, d) ==
    LET F[k \in 0..Len(Pool)] ==
            IF k = 0 THEN <<>>
            ELSE IF k \in chosen /\ Pool[k].doc = d
                 THEN Append(F[k - 1], Pool[k].info)
                 ELSE F[k - 1]
    IN F[Len(Pool)]

\* the index declaring the symbols chosen, with occurrences o1 and o2 in
\* its two documents
Index(chosen, o1, o2) ==
    [documents |-> <<
        [relative_path |-> DocPaths[1], symbols |-> ChosenSymbols(chosen, 1),
         occurrences |-> o1],
        [relative_path |-> DocPaths[2], symbols |-> ChosenSymbols(chosen, 2),
         occurrences |-> o2] >>]

SymbolChoices == {c \in SUBSET (1..Len(Pool)) : Cardinality(c) <= MaxSyms}

CallableIds(chosen) ==
    {Pool[k].info.symbol : k \in {j \in chosen : IsCallable(Pool[j].info)}}

\* how many occurrences the two documents hold: up to two in the index
OccurrenceSplits ==
    {<<0, 0>>, <<1, 0>>, <<0, 1>>, <<2, 0>>, <<1, 1>>, <<0, 2>>}

EmptyIndex == [documents |-> <<>>]

----------------------------------------------------------------------------
(* The workspace directory.                                                *)

RS == <<"r", "s">>
HTML == <<"h", "t", "m", "l">>
TXT == <<"t", "x", "t">>

\* a directory entry: its path relative to the workspace, its extension,
\* whether it is a regular file, whether a directory above it holds a
\* CACHEDIR.TAG, whether its bytes are valid UTF-8, and its lines
Entry(path, ext, is_file, cached, utf8, lines) ==
    [path |-> path, ext |-> ext, is_file |-> is_file, cached |-> cached,
     utf8 |-> utf8, lines |-> lines]

SourceFile(path, lines) == Entry(path, RS, TRUE, FALSE, TRUE, lines)

\* the workspace: whether it holds a Cargo.toml, whether the SCIP file
\* exists, and its entries
Workspace(cargo, scip, entries) ==
    [cargo_toml |-> cargo, scip_exists |-> scip, entries |-> entries]

Workspaces == {
    \* every name on one line
    Workspace(TRUE, TRUE, {
        SourceFile(DocPaths[1], << <<"f", "o">>, <<"b", "a">> >>),
        SourceFile(DocPaths[2], << MAIN, <<"h", "f">> >>) }),
    \* the first document's path is a directory; ba twice on one line; fo on
    \* two lines, one of a scanned html file and inside a larger identifier;
    \* ba also in a cache directory and in a txt file
    Workspace(TRUE, TRUE, {
        Entry(DocPaths[1], RS, FALSE, FALSE, TRUE, <<>>),
        SourceFile(DocPaths[2], << <<"b", "a", " ", "b", "a">>, <<"f", "o">> >>),
        Entry(<<"t">>, HTML, TRUE, FALSE, TRUE, << <<"x", "f", "o", "o">> >>),
        Entry(<<"z">>, RS, TRUE, TRUE, TRUE, << <<"b", "a">> >>),
        Entry(<<"n">>, TXT, TRUE, FALSE, TRUE, << <<"b", "a">> >>) }),
    \* the second document's file is gone
    Workspace(TRUE, TRUE, {
        SourceFile(DocPaths[1], << <<"f", "o">>, <<"b", "a">> >>) }),
    \* no SCIP file yet; the first document's file is gone and the second
    \* has a single line
    Workspace(TRUE, FALSE, {
        SourceFile(DocPaths[2], << <<"b", "a", " ", "f", "o">> >>) }),
    \* a scanned file is not valid UTF-8
    Workspace(TRUE, TRUE, {
        SourceFile(DocPaths[1], << <<"f", "o">> >>),
        Entry(<<"t">>, HTML, TRUE, FALSE, FALSE, <<>>) }),
    \* no Cargo.toml
    Workspace(FALSE, TRUE, {
        SourceFile(DocPaths[1], << <<"f", "o">> >>) })
}

\* Path::exists
Exists(w, path) == \E e \in w.entries : e.path = path

EntryAt(w, path) == CHOOSE e \in w.entries : e.path = path

\* std::fs::read_to_string succeeds
Readable(e) == e.is_file /\ e.utf8

\* the files the walk of Pass 3 yields
ScannedFiles(w) ==
    {e \in w.entries : ~e.cached /\ e.is_file /\ e.ext \in Extensions}

----------------------------------------------------------------------------
(* Hash maps.                                                              *)

EmptyMap == [k \in {} |-> 0]

Insert(m, k, v) == [x \in DOMAIN m \cup {k} |-> IF x = k THEN v ELSE m[x]]

Remove(m, k) == [x \in DOMAIN m \ {k} |-> m[x]]

\* counts.get(k).copied().unwrap_or_default()
GetOrDefault(m, k) == IF k \in DOMAIN m THEN m[k] ELSE 0

----------------------------------------------------------------------------
(* Record method/function and traits declarations (lines 64-80).           *)

\* the symbols of all documents, in the order the loops visit them
SymbolsFrom(idx) ==
    LET F[d \in 0..Len(idx.documents)] ==
            IF d = 0 THEN <<>> ELSE F[d - 1] \o idx.documents[d].symbols
    IN F[Len(idx.documents)]

\* the occurrences of all documents, in the order the loops visit them,
\* each with the position of its document
OccurrencesFrom(idx) ==
    LET F[d \in 0..Len(idx.documents)] ==
            IF d = 0 THEN <<>>
            ELSE F[d - 1] \o
                 [i \in 1..Len(idx.documents[d].occurrences) |->
                    [doc |-> d, occ |-> idx.documents[d].occurrences[i]]]
    IN F[Len(idx.documents)]

\* s.kind.enum_value() is Ok
KindParses(s) == s.kind # "Unrecognized"

CollectDeclarations(idx) ==
    LET syms == SymbolsFrom(idx)
        F[k \in 0..Len(syms)] ==
            IF k = 0 THEN EmptyMap
            ELSE IF ~KindParses(syms[k]) THEN F[k - 1]
            ELSE IF syms[k].kind # "Method" /\ syms[k].kind # "Function" THEN F[k - 1]
            ELSE Insert(F[k - 1], syms[k].symbol, syms[k])
    IN F[Len(syms)]

CollectTraits(idx) ==
    LET syms == SymbolsFrom(idx)
    IN {syms[k].display_name :
          k \in {j \in 1..Len(syms) : KindParses(syms[j]) /\ syms[j].kind = "Trait"}}

----------------------------------------------------------------------------
(* Pass 1: record occurrences (lines 87-94).                               *)

\* a variant that takes only an occurrence without any role for a use
IsUseNoRole(o) == o.symbol_roles = 0

\* (o.symbol_roles & SymbolRole::Definition as i32) == 0
IsUse(o) == BitAnd(o.symbol_roles, Definition) = 0

RecordOccurrences(decls, idx) ==
    LET occs == OccurrencesFrom(idx)
        F[k \in 0..Len(occs)] ==
            IF k = 0 THEN decls
            ELSE IF IsUse(occs[k].occ) THEN Remove(F[k - 1], occs[k].occ.symbol)
            ELSE F[k - 1]
    IN F[Len(occs)]

----------------------------------------------------------------------------
(* Pass 2: mains, tests, trait methods (lines 103-111).                    *)

\* a variant that forgets the trait methods
RetainedNoTraits(d, trs) ==
    /\ ~Contains(d.symbol, TEST)
    /\ d.display_name # MAIN
    /\ (IF d.signature_documentation.present
        THEN ~Contains(d.signature_documentation.relative_path, TEST)
        ELSE TRUE)

\* the closure of declarations.retain
Retained(d, trs) ==
    /\ ~Contains(d.symbol, TEST)
    /\ d.display_name # MAIN
    /\ (IF d.signature_documentation.present
        THEN ~Contains(d.signature_documentation.relative_path, TEST)
        ELSE TRUE)
    /\ \A t \in trs : ~Contains(d.symbol, t)

Retain2(decls, trs) ==
    [k \in {x \in DOMAIN decls : Retained(decls[x], trs)} |-> decls[k]]

----------------------------------------------------------------------------
(* Pass 3: grep for candidates (lines 118-144).                            *)

\* the loop over declarations.values() for one line; ord is the order in
\* which the hash map yields its keys
CountLine(line, ord, decls, cnt) ==
    LET G[j \in 0..Len(ord)] ==
            IF j = 0 THEN cnt
            ELSE IF Contains(line, decls[ord[j]].display_name)
                 THEN Insert(G[j - 1], decls[ord[j]].symbol,
                             GetOrDefault(G[j - 1], decls[ord[j]].symbol) + 1)
                 ELSE G[j - 1]
    IN G[Len(ord)]

\* the loop over contents.lines()
CountFile(lines, ord, decls, cnt) ==
    LET G[i \in 0..Len(lines)] ==
            IF i = 0 THEN cnt ELSE CountLine(lines[i], ord, decls, G[i - 1])
    IN G[Len(lines)]

\* for_each over the files of the walk, in the order the walk yields them
CountFiles(files, ord, decls) ==
    LET G[i \in 0..Len(files)] ==
            IF i = 0 THEN EmptyMap
            ELSE CountFile(files[i].lines, ord, decls, G[i - 1])
    IN G[Len(files)]

\* a variant that keeps only the names found nowhere
FewMatchesNone(n) == n < 1

\* the closure of the second declarations.retain
FewMatches(n) == n <= 1

Retain3(decls, cnt) ==
    [k \in {x \in DOMAIN decls : FewMatches(GetOrDefault(cnt, x))} |-> decls[k]]

----------------------------------------------------------------------------
(* Find the occurrence with the definition (lines 149-159).                *)

\* (o.symbol_roles & SymbolRole::Definition as i32) > 0
IsDefinition(o) == BitAnd(o.symbol_roles, Definition) > 0

\* a variant that leaves the located symbol in the map
AfterLocatedKept(decls, o) == decls

\* the declarations left once the occurrence is recorded
AfterLocated(decls, o) == Remove(decls, o.symbol)

\* the loop: the declarations left and the (document, occurrence) pairs pushed
Locate(decls, idx) ==
    LET occs == OccurrencesFrom(idx)
        F[k \in 0..Len(occs)] ==
            IF k = 0 THEN [decls |-> decls, found |-> <<>>]
            ELSE IF /\ occs[k].occ.symbol \in DOMAIN F[k - 1].decls
                    /\ IsDefinition(occs[k].occ)
                 THEN [decls |-> AfterLocated(F[k - 1].decls, occs[k].occ),
                       found |-> Append(F[k - 1].found, occs[k])]
                 ELSE F[k - 1]
    IN F[Len(occs)]

----------------------------------------------------------------------------
(* Group by file (lines 161-167).                                          *)

\* into_group_map: path -> the occurrences pushed with it, in push order
GroupMap(found, idx) ==
    LET path(f) == idx.documents[f.doc].relative_path
        paths == {path(found[i]) : i \in 1..Len(found)}
        Pick(p) ==
            LET F[k \in 0..Len(found)] ==
                    IF k = 0 THEN <<>>
                    ELSE IF path(found[k]) = p THEN Append(F[k - 1], found[k].occ)
                    ELSE F[k - 1]
            IN F[Len(found)]
    IN [p \in paths |-> Pick(p)]

\* a stable insertion of g by its path
InsertByPath(sorted, g) ==
    LET later == {i \in 1..Len(sorted) : StrLess(g.path, sorted[i].path)}
        at == IF later = {} THEN Len(sorted) + 1
              ELSE CHOOSE i \in later : \A j \in later : i <= j
    IN SubSeq(sorted, 1, at - 1) \o <<g>> \o SubSeq(sorted, at, Len(sorted))

\* a variant that leaves the groups in the order of the hash map
SortByPathNone(gs) == gs

\* sort_by_key(|(d, _)| *d)
SortByPath(gs) ==
    LET F[k \in 0..Len(gs)] ==
            IF k = 0 THEN <<>> ELSE InsertByPath(F[k - 1], gs[k])
    IN F[Len(gs)]

\* into_iter().collect_vec() in the order ord of the hash map, then the sort
GroupsOf(gm, ord) ==
    SortByPath([i \in 1..Len(ord) |-> [path |-> ord[i], occs |-> gm[ord[i]]]])

----------------------------------------------------------------------------
(* Display (lines 169-184).                                                *)

InsertByLine(sorted, o) ==
    LET later == {i \in 1..Len(sorted) : o.range[1] < sorted[i].range[1]}
        at == IF later = {} THEN Len(sorted) + 1
              ELSE CHOOSE i \in later : \A j \in later : i <= j
    IN SubSeq(sorted, 1, at - 1) \o <<o>> \o SubSeq(sorted, at, Len(sorted))

\* occs.sort_by_key(|occ| occ.range[0])
SortByLine(occs) ==
    LET F[k \in 0..Len(occs)] ==
            IF k = 0 THEN <<>> ELSE InsertByLine(F[k - 1], occs[k])
    IN F[Len(occs)]

\* println!("{}", path)
PathLine(p) == [kind |-> "path", path |-> p, number |-> 0, text |-> <<>>]
\* println!("{:<4} {}", line + 1, lines[line])
SourceLine(p, line, lines) ==
    [kind |-> "line", path |-> p, number |-> line + 1, text |-> lines[line + 1]]
\* println!()
BlankLine(p) == [kind |-> "blank", path |-> p, number |-> 0, text |-> <<>>]

\* a variant that gives up at the first file that is gone
StaleBail == [result |-> "error", printed |-> <<>>]

\* lines 171-174: the file of the group is gone: warn! and continue
StaleOutcome == [result |-> "skipped", printed |-> <<>>]

\* What one iteration of the display loop does with the group g:
\* "skipped" (warning, continue), "error" (read_to_string fails and ? returns),
\* "panic" (lines[line] is out of bounds) or "printed", with the lines printed.
DisplayGroup(w, g) ==
    IF ~Exists(w, g.path)
    THEN StaleOutcome
    ELSE IF ~Readable(EntryAt(w, g.path))
    THEN [result |-> "error", printed |-> <<>>]
    ELSE LET lines == EntryAt(w, g.path).lines
             occs == SortByLine(g.occs)
             bad == {i \in 1..Len(occs) : occs[i].range[1] >= Len(lines)}
             stop == IF bad = {} THEN Len(occs) + 1
                     ELSE CHOOSE i \in bad : \A j \in bad : i <= j
             shown == [i \in 1..(stop - 1) |->
                         SourceLine(g.path, occs[i].range[1], lines)]
         IN IF bad = {}
            THEN [result |-> "printed",
                  printed |-> <<PathLine(g.path)>> \o shown \o <<BlankLine(g.path)>>]
            ELSE [result |-> "panic", printed |-> <<PathLine(g.path)>> \o shown]

\* warn!("{} not found, is the SCIP file up-to-date?", path)
StaleWarning(p) == [kind |-> "not_found", path |-> p]
\* warn!("SCIP file not found at {:?}. Generating with rust-analyzer. ...")
GeneratingWarning == [kind |-> "generating", path |-> <<>>]

----------------------------------------------------------------------------
(* The end of the run (lines 185-194).                                     *)

\* a variant that lets a single candidate pass
EnsureAtMostOne(n) == n <= 1

\* anyhow::ensure!(n_found == 0, ...)
EnsureHolds(n) == n = 0

\* a variant whose main exits with 1 on Err
ExitStatusOne(result) ==
    CASE result = "Ok"    -> SuccessExit
      [] result = "Err"   -> 1
      [] result = "Panic" -> PanicExit

\* the status of the process: main calls exit(2) on Err, returns on Ok; a
\* panic unwinds out of main
ExitStatus(result) ==
    CASE result = "Ok"    -> SuccessExit
      [] result = "Err"   -> ErrorExit
      [] result = "Panic" -> PanicExit

NotExited == [exited |-> FALSE, code |-> 0]
Exited(code) == [exited |-> TRUE, code |-> code]

\* why the run ended, with the count the message of anyhow::ensure! carries
NoCause == [why |-> "none", count |-> 0]
Cause(why, n) == [why |-> why, count |-> n]

\* The display loop from group k on, as a function: the lines printed, the
\* warnings logged and how the loop ended ("done", "error" or "panic").
RECURSIVE DisplayFrom(_, _, _)
DisplayFrom(w, gs, k) ==
    IF k > Len(gs) THEN [printed |-> <<>>, warned |-> <<>>, result |-> "done"]
    ELSE LET d == DisplayGroup(w, gs[k])
         IN IF d.result \in {"error", "panic"}
            THEN [printed |-> d.printed, warned |-> <<>>, result |-> d.result]
            ELSE LET rest == DisplayFrom(w, gs, k + 1)
                 IN [printed |-> d.printed \o rest.printed,
                     warned |-> (IF d.result = "skipped"
                                 THEN <<StaleWarning(gs[k].path)>> ELSE <<>>)
                                \o rest.warned,
                     result |-> rest.result]

\* Lines 64-186 as a function of the index and the workspace: every result
\* main_impl can produce, over the orders in which the walk yields the files
\* and the hash maps yield their entries.
Outcomes(idx, w) ==
    LET d2 == Retain2(RecordOccurrences(CollectDeclarations(idx), idx),
                      CollectTraits(idx))
        Shown(d3, found, gs) ==
            LET r == DisplayFrom(w, gs, 1)
            IN [output |-> r.printed,
                findings |-> found,
                code |-> ExitStatus(
                    CASE r.result = "error" -> "Err"
                      [] r.result = "panic" -> "Panic"
                      [] OTHER -> IF EnsureHolds(Cardinality(DOMAIN d3))
                                  THEN "Ok" ELSE "Err")]
        Found(d3) ==
            LET loc == Locate(d3, idx)
                gm == GroupMap(loc.found, idx)
            IN {Shown(d3, loc.found, GroupsOf(gm, go)) : go \in Orders(DOMAIN gm)}
    IN IF \E e \in ScannedFiles(w) : ~Readable(e)
       THEN {[output |-> <<>>, findings |-> <<>>, code |-> ExitStatus("Panic")]}
       ELSE UNION {Found(Retain3(d2, CountFiles(fo, do, d2))) :
                     fo \in Orders(ScannedFiles(w)), do \in Orders(DOMAIN d2)}

----------------------------------------------------------------------------
(* The run.                                                                *)

Init ==
    /\ pc = "start"
    /\ ws \in Workspaces
    /\ index = EmptyIndex
    /\ declarations = EmptyMap
    /\ traits = {}
    /\ counts = EmptyMap
    /\ n_found = 0
    /\ declarations_occurrences = <<>>
    /\ groups = <<>>
    /\ next_group = 1
    /\ output = <<>>
    /\ warnings = <<>>
    /\ status = NotExited
    /\ cause = NoCause

\* main_impl returns result (or panics) and the process ends
End(result, why) ==
    /\ pc' = "exited"
    /\ status' = Exited(ExitStatus(result))
    /\ cause' = Cause(why, IF why = "findings" THEN n_found ELSE 0)

\* lines 42-44
CheckWorkspace ==
    /\ pc = "start"
    /\ IF ~ws.cargo_toml
       THEN End("Err", "no_cargo_toml")
       ELSE pc' = "scip" /\ UNCHANGED <<status, cause>>
    /\ UNCHANGED <<ws, index, declarations, traits, counts, n_found,
                   declarations_occurrences, groups, next_group, output, warnings>>

\* lines 45-56: rust-analyzer runs when the SCIP file is missing
GenerateScip ==
    /\ pc = "scip"
    /\ IF ws.scip_exists
       THEN pc' = "parse" /\ UNCHANGED <<status, cause, warnings>>
       ELSE /\ warnings' = Append(warnings, GeneratingWarning)
            /\ \E ran \in BOOLEAN :
                 IF ran THEN pc' = "parse" /\ UNCHANGED <<status, cause>>
                 ELSE End("Err", "indexer")
    /\ UNCHANGED <<ws, index, declarations, traits, counts, n_found,
                   declarations_occurrences, groups, next_group, output>>

\* lines 59-62: File::open and Index::parse_from_reader
ParseIndex ==
    /\ pc = "parse"
    /\ \/ End("Err", "open") /\ UNCHANGED index
       \/ End("Err", "parse") /\ UNCHANGED index
       \/ /\ \E chosen \in SymbolChoices, n \in OccurrenceSplits :
               \E o1 \in SeqsOfLen(Occurrences(CallableIds(chosen)), n[1]),
                  o2 \in SeqsOfLen(Occurrences(CallableIds(chosen)), n[2]) :
                  index' = Index(chosen, o1, o2)
          /\ pc' = "collect"
          /\ UNCHANGED <<status, cause>>
    /\ UNCHANGED <<ws, declarations, traits, counts, n_found,
                   declarations_occurrences, groups, next_group, output, warnings>>

\* lines 64-85
Collect ==
    /\ pc = "collect"
    /\ declarations' = CollectDeclarations(index)
    /\ traits' = CollectTraits(index)
    /\ pc' = "pass1"
    /\ UNCHANGED <<ws, index, counts, n_found, declarations_occurrences, groups,
                   next_group, output, warnings, status, cause>>

\* lines 87-96
Pass1 ==
    /\ pc = "pass1"
    /\ declarations' = RecordOccurrences(declarations, index)
    /\ pc' = "pass2"
    /\ UNCHANGED <<ws, index, traits, counts, n_found, declarations_occurrences,
                   groups, next_group, output, warnings, status, cause>>

\* a variant that filters the declarations as collected, not as Pass 1 left them
Pass2FromCollected == Retain2(CollectDeclarations(index), traits)

\* the candidates Pass 2 leaves
Pass2Result == Retain2(declarations, traits)

\* lines 98-115
Pass2 ==
    /\ pc = "pass2"
    /\ declarations' = Pass2Result
    /\ pc' = "pass3"
    /\ UNCHANGED <<ws, index, traits, counts, n_found, declarations_occurrences,
                   groups, next_group, output, warnings, status, cause>>

\* lines 117-145: read_to_string(..).unwrap() panics on a file it cannot read
Pass3 ==
    /\ pc = "pass3"
    /\ IF \E e \in ScannedFiles(ws) : ~Readable(e)
       THEN /\ End("Panic", "scan_read")
            /\ UNCHANGED <<declarations, counts, n_found>>
       ELSE /\ \E files \in Orders(ScannedFiles(ws)),
                  ord \in Orders(DOMAIN declarations) :
                    counts' = CountFiles(files, ord, declarations)
            /\ declarations' = Retain3(declarations, counts')
            /\ n_found' = Cardinality(DOMAIN declarations')
            /\ pc' = "locate"
            /\ UNCHANGED <<status, cause>>
    /\ UNCHANGED <<ws, index, traits, declarations_occurrences, groups,
                   next_group, output, warnings>>

\* lines 147-159
LocateDefinitions ==
    /\ pc = "locate"
    /\ declarations' = Locate(declarations, index).decls
    /\ declarations_occurrences' = Locate(declarations, index).found
    /\ pc' = "group"
    /\ UNCHANGED <<ws, index, traits, counts, n_found, groups, next_group,
                   output, warnings, status, cause>>

\* lines 160-167
GroupByFile ==
    /\ pc = "group"
    /\ LET gm == GroupMap(declarations_occurrences, index)
       IN \E ord \in Orders(DOMAIN gm) : groups' = GroupsOf(gm, ord)
    /\ next_group' = 1
    /\ pc' = "display"
    /\ UNCHANGED <<ws, index, declarations, traits, counts, n_found,
                   declarations_occurrences, output, warnings, status, cause>>

\* lines 169-184: one iteration of the display loop
Display ==
    /\ pc = "display"
    /\ next_group <= Len(groups)
    /\ LET g == groups[next_group]
           d == DisplayGroup(ws, g)
       IN /\ output' = output \o d.printed
          /\ warnings' = IF d.result = "skipped"
                         THEN Append(warnings, StaleWarning(g.path))
                         ELSE warnings
          /\ CASE d.result = "error" ->
                    End("Err", "report_read") /\ UNCHANGED next_group
               [] d.result = "panic" ->
                    End("Panic", "line_out_of_range") /\ UNCHANGED next_group
               [] OTHER ->
                    /\ next_group' = next_group + 1
                    /\ UNCHANGED <<pc, status, cause>>
    /\ UNCHANGED <<ws, index, declarations, traits, counts, n_found,
                   declarations_occurrences, groups>>

\* lines 185-194, once the display loop has ended
Ensure ==
    /\ pc = "display"
    /\ next_group > Len(groups)
    /\ IF EnsureHolds(n_found) THEN End("Ok", "none") ELSE End("Err", "findings")
    /\ UNCHANGED <<ws, index, declarations, traits, counts, n_found,
                   declarations_occurrences, groups, next_group, output, warnings>>

Next ==
    \/ CheckWorkspace
    \/ GenerateScip
    \/ ParseIndex
    \/ Collect
    \/ Pass1
    \/ Pass2
    \/ Pass3
    \/ LocateDefinitions
    \/ GroupByFile
    \/ Display
    \/ Ensure

Spec == Init /\ [][Next]_vars

----------------------------------------------------------------------------
(* The input and the result, as the claims speak of them.                  *)

\* n occurs in l as a contiguous substring
HasSub(l, n) ==
    \E k \in 0..(Len(l) - Len(n)) : \A j \in 1..Len(n) : l[k + j] = n[j]

\* the symbols the index declares, each with the position of its document
Declared ==
    UNION {{[doc |-> d, info |-> index.documents[d].symbols[i]] :
              i \in DOMAIN index.documents[d].symbols} :
           d \in DOMAIN index.documents}

Callables == {s \in Declared : s.info.kind \in {"Function", "Method"}}

TraitNames == {s.info.display_name : s \in {t \in Declared : t.info.kind = "Trait"}}

\* positions <<document, occurrence>> of the occurrences of a symbol id
Positions(id) ==
    UNION {{<<d, i>> : i \in {j \in DOMAIN index.documents[d].occurrences :
                               index.documents[d].occurrences[j].symbol = id}} :
           d \in DOMAIN index.documents}

OccAt(p) == index.documents[p[1]].occurrences[p[2]]

DefinitionBit(o) == o.symbol_roles % 2 = 1

UsePositions(id) == {p \in Positions(id) : ~DefinitionBit(OccAt(p))}
DefPositions(id) == {p \in Positions(id) : DefinitionBit(OccAt(p))}

\* document/occurrence order
Before(p, q) == p[1] < q[1] \/ (p[1] = q[1] /\ p[2] < q[2])

\* the scanned lines <<path, line>> that hold name
MatchingLines(name) ==
    UNION {{<<e.path, i>> : i \in {j \in DOMAIN e.lines : HasSub(e.lines[j], name)}} :
           e \in ScannedFiles(ws)}

\* one of the four exclusions of Pass 2 applies to the declaration
Excluded(info) ==
    \/ info.display_name = MAIN
    \/ HasSub(info.symbol, TEST)
    \/ /\ info.signature_documentation.present
       /\ HasSub(info.signature_documentation.relative_path, TEST)
    \/ \E t \in TraitNames : HasSub(info.symbol, t)

\* the findings: the (document, occurrence) pairs the locator recorded
Findings == {declarations_occurrences[i] : i \in DOMAIN declarations_occurrences}
FindingIds == {f.occ.symbol : f \in Findings}

\* the locator has run
Located ==
    \/ pc \in {"group", "display"}
    \/ pc = "exited" /\ cause.why \in {"none", "findings", "report_read",
                                       "line_out_of_range"}

----------------------------------------------------------------------------
(* C1: a Method/Function symbol with at least one occurrence whose         *)
(* Definition bit is not set, in any document and at any place among its   *)
(* occurrences, is never recorded as a finding.                            *)
C1_UsedSymbolNeverFound ==
    \A f \in Findings : UsePositions(f.occ.symbol) = {}

\* a symbol that every other pass would keep, used in the document before
\* the one that declares and defines it, and not recorded
C1_Witness ==
    /\ pc = "group"
    /\ \E s \in Callables :
         /\ ~Excluded(s.info)
         /\ Cardinality(MatchingLines(s.info.display_name)) <= 1
         /\ \E u \in UsePositions(s.info.symbol), d \in DefPositions(s.info.symbol) :
              u[1] < s.doc /\ Before(u, d)
         /\ s.info.symbol \notin FindingIds

(* C4: a Method/Function symbol named "main", or whose id contains "test", *)
(* or whose source-file hint contains "test", or whose id contains the     *)
(* display name of a Trait symbol of any document, is never recorded as a  *)
(* finding.                                                                *)
C4_ExcludedNeverFound ==
    \A f \in Findings :
        \A s \in Callables : s.info.symbol = f.occ.symbol => ~Excluded(s.info)

\* a method with a definition and no use, its name on at most one line, whose
\* id contains the name of a trait declared in a later document: not recorded
C4_Witness ==
    /\ pc = "group"
    /\ \E s \in Callables :
         /\ DefPositions(s.info.symbol) # {}
         /\ UsePositions(s.info.symbol) = {}
         /\ Cardinality(MatchingLines(s.info.display_name)) <= 1
         /\ s.info.display_name # MAIN
         /\ ~HasSub(s.info.symbol, TEST)
         /\ \E t \in Declared :
              t.info.kind = "Trait" /\ t.doc > s.doc
              /\ HasSub(s.info.symbol, t.info.display_name)
         /\ s.info.symbol \notin FindingIds

\* the conditions under which C6 promises a finding
Eligible(s) ==
    /\ s \in Callables
    /\ DefPositions(s.info.symbol) # {}
    /\ UsePositions(s.info.symbol) = {}
    /\ ~Excluded(s.info)
    /\ Cardinality(MatchingLines(s.info.display_name)) <= 1

FirstDef(id) ==
    CHOOSE p \in DefPositions(id) : \A q \in DefPositions(id) : q = p \/ Before(p, q)

(* C6: a Function or Method symbol with a Definition occurrence, no use,   *)
(* none of the Pass 2 exclusions and its name on at most one scanned line  *)
(* is recorded exactly once, at its first Definition occurrence; no symbol *)
(* id appears in two findings.                                             *)
C6_EligibleFoundOnce ==
    /\ \A i, j \in DOMAIN declarations_occurrences :
         declarations_occurrences[i].occ.symbol = declarations_occurrences[j].occ.symbol
           => i = j
    /\ Located =>
         \A s \in Callables :
            Eligible(s) =>
              /\ Cardinality({i \in DOMAIN declarations_occurrences :
                    declarations_occurrences[i].occ.symbol = s.info.symbol}) = 1
              /\ [doc |-> FirstDef(s.info.symbol)[1],
                  occ |-> OccAt(FirstDef(s.info.symbol))] \in Findings

\* an eligible symbol with two Definition occurrences at different lines,
\* recorded at the first
C6_Witness ==
    /\ pc = "group"
    /\ \E s \in Callables :
         /\ Eligible(s)
         /\ \E p, q \in DefPositions(s.info.symbol) :
              Before(p, q) /\ OccAt(p).range # OccAt(q).range
         /\ \E f \in Findings : f.occ.symbol = s.info.symbol

(* C7: once collection has finished no step inserts a symbol id into the   *)
(* candidate map: after every step the candidates are a subset of the      *)
(* candidates before it, with the same declarations.                       *)
C7_CandidatesShrink ==
    [][pc \notin {"start", "scip", "parse", "collect"} =>
         /\ DOMAIN declarations' \subseteq DOMAIN declarations
         /\ \A k \in DOMAIN declarations' : declarations'[k] = declarations[k]]_vars

\* Pass 1 removed a symbol that Pass 2 would keep, and it is still out
C7_Witness ==
    /\ pc = "exited"
    /\ cause.why = "findings"
    /\ \E s \in Callables :
         /\ UsePositions(s.info.symbol) # {}
         /\ ~Excluded(s.info)
         /\ s.info.symbol \notin DOMAIN declarations

(* C5: Pass 3 keeps a candidate exactly when the scanned lines that hold   *)
(* its display name as a substring, over all scanned files, are at most    *)
(* one; a line holding the name several times counts once.                 *)
C5_Pass3KeepsFewMatches ==
    [][pc = "pass3" /\ pc' = "locate" =>
         /\ \A k \in DOMAIN declarations :
              GetOrDefault(counts', k)
                = Cardinality(MatchingLines(declarations[k].display_name))
         /\ DOMAIN declarations' =
              {k \in DOMAIN declarations :
                 Cardinality(MatchingLines(declarations[k].display_name)) <= 1}]_vars

\* a candidate kept with its name twice on its only line, and a candidate
\* removed with its name on two lines of different files
C5_Witness ==
    /\ pc = "locate"
    /\ \E k \in DOMAIN declarations :
         /\ counts[k] = 1
         /\ \E m \in MatchingLines(declarations[k].display_name) :
              LET l == EntryAt(ws, m[1]).lines[m[2]]
                  n == declarations[k].display_name
              IN Cardinality({o \in 0..(Len(l) - Len(n)) :
                                SubSeq(l, o + 1, o + Len(n)) = n}) >= 2
    /\ \E s \in Callables :
         /\ s.info.symbol \in DOMAIN counts \ DOMAIN declarations
         /\ counts[s.info.symbol] = 2
         /\ \E m1, m2 \in MatchingLines(s.info.display_name) : m1[1] # m2[1]

\* a is before b in the order of String
LexLess(a, b) ==
    \E k \in 0..Len(a) :
        /\ k <= Len(b)
        /\ \A j \in 1..k : a[j] = b[j]
        /\ \/ k = Len(a) /\ k < Len(b)
           \/ k < Len(a) /\ k < Len(b) /\ CharCode(a[k + 1]) < CharCode(b[k + 1])

PathOf(f) == index.documents[f.doc].relative_path

Headers == {i \in DOMAIN output : output[i].kind = "path"}
Printed == {i \in DOMAIN output : output[i].kind = "line"}

\* the run reached the final check of n_found
Completed == pc = "exited" /\ cause.why \in {"none", "findings"}

(* C8: the report lists the findings grouped by document path, one group   *)
(* per path, the groups in ascending order of path, the findings of a      *)
(* group in ascending order of starting line, each printed with its line   *)
(* number starting at 1.                                                   *)
C8_ReportGroupedAndSorted ==
    /\ \A i, j \in Headers : i < j => LexLess(output[i].path, output[j].path)
    /\ \A i \in Printed :
         \E h \in Headers :
            /\ h < i
            /\ output[h].path = output[i].path
            /\ \A m \in (h + 1)..(i - 1) : m \in Printed
    /\ \A i, j \in Printed :
         i < j /\ output[i].path = output[j].path
           => output[i].number <= output[j].number
    /\ \A p \in {output[i].path : i \in Printed} :
         \A n \in {output[i].number : i \in Printed} :
            Cardinality({i \in Printed : output[i].path = p /\ output[i].number = n})
              <= Cardinality({f \in Findings :
                                PathOf(f) = p /\ f.occ.range[1] + 1 = n})
    /\ Completed =>
         \A f \in Findings :
            Exists(ws, PathOf(f)) =>
              \E i \in Printed :
                 /\ output[i].path = PathOf(f)
                 /\ output[i].number = f.occ.range[1] + 1
                 /\ output[i].text = EntryAt(ws, PathOf(f)).lines[f.occ.range[1] + 1]

\* two groups printed, the finding recorded first in the group printed last
C8_Witness ==
    /\ Completed
    /\ Cardinality(Headers) = 2
    /\ Len(declarations_occurrences) = 2
    /\ \E i, j \in Printed :
         /\ i < j
         /\ output[i].path = PathOf(declarations_occurrences[2])
         /\ output[j].path = PathOf(declarations_occurrences[1])

(* C9: when the file of a group does not exist, the reporter logs a        *)
(* warning, prints nothing for the group and goes on to the next group;    *)
(* the later groups are printed, and the status of the run is the one the  *)
(* count of candidates decides.                                            *)
C9_StaleGroupSkipped ==
    /\ [][(/\ pc = "display"
           /\ next_group <= Len(groups)
           /\ ~Exists(ws, groups[next_group].path))
          => /\ output' = output
             /\ warnings' = Append(warnings, StaleWarning(groups[next_group].path))
             /\ next_group' = next_group + 1
             /\ pc' = "display"
             /\ status' = NotExited]_vars
    /\ [](Completed =>
            /\ \A k \in DOMAIN groups :
                 IF Exists(ws, groups[k].path)
                 THEN \E h \in Headers : output[h].path = groups[k].path
                 ELSE /\ \A i \in DOMAIN output : output[i].path # groups[k].path
                      /\ \E x \in DOMAIN warnings :
                           warnings[x] = StaleWarning(groups[k].path)
            /\ status.code = (IF n_found = 0 THEN SuccessExit ELSE ErrorExit))

\* the first group's file is gone and the second group is printed
C9_Witness ==
    /\ Completed
    /\ Len(groups) = 2
    /\ ~Exists(ws, groups[1].path)
    /\ \E h \in Headers : output[h].path = groups[2].path
    /\ \E i \in Printed : output[i].path = groups[2].path

\* the run got as far as reading the workspace for Pass 3
Analysed ==
    pc = "exited" /\ cause.why \in {"none", "findings", "report_read",
                                    "line_out_of_range", "scan_read"}

(* C10: the findings, the printed report and the exit status of a run are  *)
(* those of every other run on the same index and workspace: they do not   *)
(* depend on the order in which the candidate map, the trait set, the walk *)
(* or the group map are iterated.                                          *)
C10_RunsAgree ==
    Analysed =>
        Outcomes(index, ws) =
            {[output |-> output, findings |-> declarations_occurrences,
              code |-> status.code]}

\* a run with two groups and two candidates, whose maps have two orders
C10_Witness ==
    /\ Completed
    /\ Len(groups) = 2
    /\ Cardinality(DOMAIN counts) = 2
    /\ Cardinality(Headers) = 2

\* the candidates every pass keeps
Survivors ==
    {s \in Callables :
       /\ UsePositions(s.info.symbol) = {}
       /\ ~Excluded(s.info)
       /\ Cardinality(MatchingLines(s.info.display_name)) <= 1}

(* C2, as stated: the run fails if and only if the number of findings      *)
(* recorded by the locator is nonzero; with none it succeeds and prints    *)
(* nothing, otherwise the count reported is the number of findings.        *)
C2_FailsIffFindings ==
    Completed =>
        /\ status.code # SuccessExit <=> Findings # {}
        /\ Findings = {} => output = <<>>
        /\ Findings # {} => cause.count = Cardinality(Findings)

(* C2, amended: a run that got past Pass 3 fails if and only if the number *)
(* of candidates left after Pass 3 is nonzero; with none it succeeds and   *)
(* prints nothing; the count reported is that number of candidates, which  *)
(* is at least the number of findings.                                     *)
C2_FailsIffCandidates ==
    (pc = "exited" /\ cause.why \in {"none", "findings", "report_read",
                                     "line_out_of_range"}) =>
        /\ n_found = Cardinality(Survivors)
        /\ status.code # SuccessExit <=> n_found # 0
        /\ n_found = 0 => output = <<>> /\ cause.why = "none"
        /\ cause.why = "findings" =>
              cause.count = n_found /\ status.code = ErrorExit
        /\ Cardinality(Findings) <= n_found

\* a run that fails with one candidate reported, no finding and no output
C2_Witness ==
    /\ Completed
    /\ cause.count = 1
    /\ Findings = {}
    /\ output = <<>>
    /\ status.code = ErrorExit

\* the failures below the analysis
LowLevel == {"no_cargo_toml", "indexer", "open", "parse", "report_read", "scan_read"}
\* those that main_impl returns as an error
Propagated == LowLevel \ {"scan_read"}

\* the status of a run that ends because candidates were found
FindingsStatus == ExitStatus("Err")

(* C3, as stated: a run ended by a lower-level failure has a non-zero exit *)
(* status different from the status of a run ended by findings.            *)
C3_FailureStatusDistinct ==
    (pc = "exited" /\ cause.why \in LowLevel) =>
        status.code # SuccessExit /\ status.code # FindingsStatus

(* C3, amended: a run ended by a lower-level failure has a non-zero exit   *)
(* status; for a failure main_impl returns as an error (no Cargo.toml,     *)
(* indexer, index open or parse, read of a reported file) it is 2, the     *)
(* status of a run ended by findings; only a panic (a scanned file that    *)
(* cannot be read) gives another status.                                   *)
C3_FailureStatusNonZero ==
    pc = "exited" =>
        /\ cause.why \in LowLevel => status.code # SuccessExit
        /\ cause.why \in Propagated \cup {"findings"} => status.code = ErrorExit
        /\ cause.why = "scan_read" => status.code = PanicExit

\* the index could not be parsed and the run ended with the status of findings
C3_Witness ==
    /\ pc = "exited"
    /\ cause.why = "parse"
    /\ status.code = ErrorExit

====
